---- MODULE Spec2Model ----
(***************************************************************************)
(* A model of blog4go's BLog (src/blog4go.go): the buffered, lock-guarded  *)
(* log writer with its literal write, its printf-style writef scanner and  *)
(* the buffer lifecycle (flush, Close, resetFile).                         *)
(*                                                                         *)
(* A byte is a one-character string, a byte string a sequence of them.     *)
(* Offsets into strings are kept 0-based, as in the Go code.               *)
(***************************************************************************)
EXTENDS Integers, Sequences, FiniteSets, TLC

VARIABLES
    input,      \* the workload of this run: format, args, callers, faulty sinks, call budget
    level,      \* blog.level
    in,         \* blog.in
    writer,     \* blog.writer: the bufio.Writer, or nil after Close
    dest,       \* the bytes each sink has received
    locked,     \* blog.lock
    timeCache,  \* timeCache.format
    th,         \* each caller's position and the locals of its call
    log,        \* history: the calls that have ended, in the order they ended
    hist,       \* history: per sink, the bytes bufio accepted while bound to it
    calls       \* number of calls started

vars == <<input, level, in, writer, dest, locked, timeCache, th, log, hist, calls>>

----------------------------------------------------------------------------
(* Bounds of the model *)

MaxFmtLen == 3
MaxArgs == 2
NumCallers == 2
MaxCalls == 3
SeqCalls == 1
LifeCalls == 4
BufSize == 4

\* callers and calls in the runs checked for progress
LiveCallers == 2

LiveCalls == 2

----------------------------------------------------------------------------
(* Constants of the program *)

EOL == "\n"
ESCAPE == "\\"
PLACEHOLDER == "%"

Verbs == {"d", "f", "v", "b", "o", "x", "X", "c", "p", "t", "s", "T", "q", "U",
          "e", "E", "g", "G"}

Sinks == {"s1", "s2"}

\* s1 also implements io.StringWriter (as os.File and bytes.Buffer do), s2 is a
\* plain io.Writer.
StringWriters == {"s1"}

Levels == {"DEBUG", "INFO"}

Prefix(lvl) == IF lvl = "DEBUG" THEN <<"D", "B">> ELSE <<"I">>

Timestamps == {<<"1">>, <<"2">>}

----------------------------------------------------------------------------
(* Strings and arguments the callers use *)

Alphabet == {"a", "%", "\\", "d"}

Strs(n) == UNION {[1..k -> Alphabet] : k \in 0..n}

ExtraFormats ==
    { <<"%", "d", "%", "d">>,
      <<"a", "%", "d", "a">>,
      <<"%", "\\", "\\", "d">>,
      <<"\\", "%", "d", "%", "d">>,
      <<"a", "a", "a", "%", "d", "a", "a", "a">>,
      <<"%", "\\", "a", "\\", "d">> }

\* the other verbs of line 153: one after which the int is rendered, and one
\* after %d, where the string is
VerbFormats ==
    {<<"%", v>> : v \in Verbs \ {"q"}} \cup {<<"%", "d", "%", v>> : v \in Verbs}

Formats == Strs(MaxFmtLen) \cup ExtraFormats \cup VerbFormats

\* "i7" is the int 7, "sw" the string "w"
ArgAt(i) == IF i % 2 = 1 THEN "i7" ELSE "sw"

ArgSeqs == {[i \in 1..k |-> ArgAt(i)] : k \in 0..MaxArgs}

TypeName(a) == IF a = "i7" THEN <<"i", "n", "t">> ELSE <<"s", "t", "r", "i", "n", "g">>

ValueText(a) == IF a = "i7" THEN <<"7">> ELSE <<"w">>

\* s[a:b] of Go
Slice(s, a, b) == SubSeq(s, a + 1, b)

----------------------------------------------------------------------------
(* fmt.Sprintf with one operand: the int 7 or the string "w"; no flags,    *)
(* width or precision                                                       *)

BadVerb(a, verb) == <<"%", "!", verb, "(">> \o TypeName(a) \o <<"=">> \o ValueText(a) \o <<")">>

\* the byte 0x07, the character with code 7
BEL == ""

\* fmtInteger of the int 7: the verbs it renders
IntegerVerbs == {"v", "d", "b", "o", "x", "X", "c", "q", "U"}

FmtInteger(verb) ==
    CASE verb = "b" -> <<"1", "1", "1">>
      [] verb = "c" -> <<BEL>>
      [] verb = "q" -> <<"'", "\\", "a", "'">>
      [] verb = "U" -> <<"U", "+", "0", "0", "0", "7">>
      [] OTHER -> <<"7">>

\* fmtString of the string "w": the verbs it renders
StringVerbs == {"v", "s", "x", "X", "q"}

FmtString(verb) ==
    CASE verb \in {"x", "X"} -> <<"7", "7">>
      [] verb = "q" -> <<"\"", "w", "\"">>
      [] OTHER -> <<"w">>

\* printArg: %T and %p first, then by the operand's type
PrintArg(a, verb) ==
    IF verb = "T" THEN TypeName(a)
    ELSE IF verb = "p" THEN BadVerb(a, verb)
    ELSE IF a = "i7"
         THEN (IF verb \in IntegerVerbs THEN FmtInteger(verb) ELSE BadVerb(a, verb))
    ELSE IF verb \in StringVerbs THEN FmtString(verb) ELSE BadVerb(a, verb)

ExtraArg(a) ==
    <<"%", "!", "(", "E", "X", "T", "R", "A", " ">> \o TypeName(a) \o <<"=">>
        \o ValueText(a) \o <<")">>

RECURSIVE DoPrintf(_, _, _, _)
DoPrintf(f, i, a, used) ==
    IF i > Len(f) THEN (IF used THEN <<>> ELSE ExtraArg(a))
    ELSE IF f[i] # "%" THEN <<f[i]>> \o DoPrintf(f, i + 1, a, used)
    ELSE IF i = Len(f)
         THEN <<"%", "!", "(", "N", "O", "V", "E", "R", "B", ")">>
                  \o (IF used THEN <<>> ELSE ExtraArg(a))
    ELSE IF f[i + 1] = "%" THEN <<"%">> \o DoPrintf(f, i + 2, a, used)
    ELSE IF used
         THEN <<"%", "!", f[i + 1], "(", "M", "I", "S", "S", "I", "N", "G", ")">>
                  \o DoPrintf(f, i + 2, a, TRUE)
    ELSE PrintArg(a, f[i + 1]) \o DoPrintf(f, i + 2, a, TRUE)

Sprintf(f, a) == DoPrintf(f, 1, a, FALSE)

----------------------------------------------------------------------------
(* bufio.Writer over a sink.  b = [buf, err, wr, out, acc]: the buffer, the *)
(* sticky error, the bound sink, the sinks' contents, and (history) the     *)
(* bytes the stream accepted.  ok: whether the sink's Write succeeds.       *)

Available(b) == BufSize - Len(b.buf)

BufFlush(b, ok) ==
    IF b.err THEN b
    ELSE IF Len(b.buf) = 0 THEN b
    ELSE IF ok THEN [b EXCEPT !.out[b.wr] = @ \o b.buf, !.buf = <<>>]
    ELSE [b EXCEPT !.err = TRUE]

RECURSIVE BufWriteLoop(_, _, _, _)
BufWriteLoop(b, p, ok, direct) ==
    IF Len(p) > Available(b) /\ ~b.err
    THEN IF Len(b.buf) = 0 /\ direct
         THEN IF ok
              THEN BufWriteLoop([b EXCEPT !.out[b.wr] = @ \o p, !.acc = @ \o p],
                                <<>>, ok, direct)
              ELSE BufWriteLoop([b EXCEPT !.err = TRUE], p, ok, direct)
         ELSE LET n == Available(b)
                  c == [b EXCEPT !.buf = @ \o SubSeq(p, 1, n),
                                 !.acc = @ \o SubSeq(p, 1, n)]
              IN  BufWriteLoop(BufFlush(c, ok), SubSeq(p, n + 1, Len(p)), ok, direct)
    ELSE IF b.err THEN b
    ELSE [b EXCEPT !.buf = @ \o p, !.acc = @ \o p]

BufWrite(b, p, ok) == BufWriteLoop(b, p, ok, TRUE)

BufWriteString(b, s, ok) == BufWriteLoop(b, s, ok, b.wr \in StringWriters)

\* a WriteByte that appends without making room first
BufWriteByte_NoFlush(b, c, ok) ==
    IF b.err THEN b ELSE [b EXCEPT !.buf = @ \o <<c>>, !.acc = @ \o <<c>>]

BufWriteByte(b, c, ok) ==
    IF b.err THEN b
    ELSE LET f == IF Available(b) <= 0 THEN BufFlush(b, ok) ELSE b
         IN  IF f.err THEN f
             ELSE [f EXCEPT !.buf = @ \o <<c>>, !.acc = @ \o <<c>>]

BufReset(b, w) == [b EXCEPT !.err = FALSE, !.buf = <<>>, !.wr = w]

\* the stream as the operators above see it, and back
Stream == [buf |-> writer.buf, err |-> writer.err, wr |-> writer.wr,
           out |-> dest, acc |-> <<>>]

WriterOf(b) == [nil |-> FALSE, buf |-> b.buf, err |-> b.err, wr |-> b.wr]

NilWriter == [nil |-> TRUE, buf |-> <<>>, err |-> FALSE, wr |-> "s1"]

\* what the sink bound to the stream may answer to a Write
Outcomes == IF writer.wr \in input.faulty THEN BOOLEAN ELSE {TRUE}

----------------------------------------------------------------------------
(* Callers *)

Idle == [pc |-> "idle", op |-> "none", lvl |-> "DEBUG", sink |-> "s1",
         i |-> 0, tag |-> FALSE, tagPos |-> 0, escape |-> FALSE, n |-> 0,
         last |-> 0, size |-> 0, ts |-> <<>>, emitted |-> <<>>,
         panicked |-> FALSE,
         err |-> FALSE,     \* the error the call returns (resetFile's result err)
         ioerr |-> FALSE]   \* history: a Flush of this call returned an error

Entry(t, kind, val) ==
    [t |-> t, op |-> th[t].op, lvl |-> th[t].lvl, sink |-> th[t].sink,
     kind |-> kind, val |-> val, ts |-> th[t].ts, emitted |-> th[t].emitted]

Threads == DOMAIN th

CanCall(t, op) == th[t].pc = "idle" /\ calls < input.maxCalls /\ op \in input.ops

Start(t, op, lvl, sink) ==
    /\ th' = [th EXCEPT ![t] = [Idle EXCEPT !.pc = "lock", !.op = op,
                                            !.lvl = lvl, !.sink = sink]]
    /\ calls' = calls + 1
    /\ UNCHANGED <<input, level, in, writer, dest, locked, timeCache, log, hist>>

CallWrite(t) == CanCall(t, "write") /\ \E lvl \in Levels : Start(t, "write", lvl, "s1")

CallWritef(t) == CanCall(t, "writef") /\ \E lvl \in Levels : Start(t, "writef", lvl, "s1")

CallFlush(t) == CanCall(t, "flush") /\ Start(t, "flush", "DEBUG", "s1")

CallClose(t) == CanCall(t, "Close") /\ Start(t, "Close", "DEBUG", "s1")

CallResetFile(t) == CanCall(t, "resetFile") /\ \E s \in Sinks : Start(t, "resetFile", "DEBUG", s)

\* the first statement of an operation's critical section
FirstPc(op) ==
    CASE op = "write" -> "w114"
      [] op = "writef" -> "f145"
      [] op = "flush" -> "fl197"
      [] op = "Close" -> "c205"
      [] op = "resetFile" -> "r229"

\* a lock that excludes nobody
CanLock_Always == TRUE

CanLock == ~locked

\* a Lock that is passed without being taken
Lock_NotTaken(t) ==
    /\ th[t].pc = "lock"
    /\ th' = [th EXCEPT ![t].pc = FirstPc(th[t].op)]
    /\ UNCHANGED <<input, level, in, writer, dest, locked, timeCache, log, hist, calls>>

Lock(t) ==
    /\ th[t].pc = "lock"
    /\ CanLock
    /\ locked' = TRUE
    /\ th' = [th EXCEPT ![t].pc = FirstPc(th[t].op)]
    /\ UNCHANGED <<input, level, in, writer, dest, timeCache, log, hist, calls>>

\* a fault that ends the call with the lock still held
Panic_NoUnlock(t) ==
    /\ th' = [th EXCEPT ![t] = Idle]
    /\ UNCHANGED <<writer, dest, hist, in>>

\* a dereference of the nil blog.writer: the call panics, the deferred Unlock runs
Panic(t) ==
    /\ th' = [th EXCEPT ![t].pc = "unlock", ![t].panicked = TRUE]
    /\ UNCHANGED <<writer, dest, hist, in>>

\* the stream after a step, written back
Store(b) ==
    /\ writer' = WriterOf(b)
    /\ dest' = b.out
    /\ hist' = [hist EXCEPT ![b.wr] = @ \o b.acc]

\* the size without the end of line
WriteSize_NoEOL(lvl, format) == Len(timeCache) + Len(Prefix(lvl)) + Len(format)

\* line 119
WriteSize(lvl, format) == Len(timeCache) + Len(Prefix(lvl)) + Len(format) + 1

Write114(t) ==
    /\ th[t].pc = "w114"
    /\ IF writer.nil THEN Panic(t)
       ELSE \E ok \in Outcomes :
            LET b1 == BufWrite(Stream, timeCache, ok)
                b2 == BufWriteString(b1, Prefix(th[t].lvl), ok)
            IN  /\ Store(b2)
                /\ th' = [th EXCEPT ![t].pc = "w116", ![t].ts = timeCache,
                                    ![t].emitted = @ \o b2.acc]
                /\ UNCHANGED in
    /\ UNCHANGED <<input, level, locked, timeCache, log, calls>>

Write116(t) ==
    /\ th[t].pc = "w116"
    /\ \E ok \in Outcomes :
         LET b1 == BufWriteString(Stream, input.format, ok)
             b2 == BufWriteByte(b1, EOL, ok)
         IN  /\ Store(b2)
             /\ th' = [th EXCEPT
                    ![t].pc = "unlock",
                    ![t].emitted = @ \o b2.acc,
                    ![t].size = WriteSize(th[t].lvl, input.format)]
    /\ UNCHANGED <<input, level, in, locked, timeCache, log, calls>>

Writef145(t) ==
    /\ th[t].pc = "f145"
    /\ IF writer.nil THEN Panic(t)
       ELSE \E ok \in Outcomes :
            LET b1 == BufWrite(Stream, timeCache, ok)
                b2 == BufWriteString(b1, Prefix(th[t].lvl), ok)
            IN  /\ Store(b2)
                /\ th' = [th EXCEPT
                       ![t].pc = "f150",
                       ![t].ts = timeCache,
                       ![t].emitted = @ \o b2.acc,
                       ![t].size = @ + Len(timeCache) + Len(Prefix(th[t].lvl))]
                /\ UNCHANGED in
    /\ UNCHANGED <<input, level, locked, timeCache, log, calls>>

\* a scan-start check that honours an escape marker before the '%'
OpensTag_EscapeAware(format, i, escape) ==
    /\ PLACEHOLDER = format[i + 1]
    /\ ~escape
    /\ ~(i >= 1 /\ format[i] = ESCAPE)

\* line 177, at the byte with index i
OpensTag(format, i, escape) == PLACEHOLDER = format[i + 1] /\ ~escape

\* one iteration of the loop over the format string (lines 150-185)
WritefScan(t) ==
    LET c == th[t]
        format == input.format
        args == input.args
        i == c.i
        v == format[i + 1]
    IN
    /\ c.pc = "f150"
    /\ i < Len(format)
    /\ IF c.tag /\ v \in Verbs /\ c.n >= Len(args)
       THEN \* args[n]: index out of range
            Panic(t)
       ELSE \E ok \in Outcomes :
            IF c.tag
            THEN IF v \in Verbs
                 THEN LET b == BufWriteString(
                                  Stream,
                                  Sprintf(Slice(format, c.tagPos, i + 1), args[c.n + 1]),
                                  ok)
                      IN  /\ Store(b)
                          /\ th' = [th EXCEPT
                                 ![t].escape = FALSE,
                                 ![t].size = @ + Len(b.acc),
                                 ![t].emitted = @ \o b.acc,
                                 ![t].n = @ + 1,
                                 ![t].last = i + 1,
                                 ![t].tag = FALSE,
                                 ![t].i = i + 1]
                          /\ UNCHANGED in
                 ELSE IF v = ESCAPE
                 THEN LET b == IF c.escape THEN BufWriteByte(Stream, ESCAPE, ok)
                               ELSE Stream
                      IN  /\ Store(b)
                          /\ th' = [th EXCEPT
                                 ![t].size = IF c.escape THEN @ + 1 ELSE @,
                                 ![t].emitted = @ \o b.acc,
                                 ![t].escape = ~c.escape,
                                 ![t].i = i + 1]
                          /\ UNCHANGED in
                 ELSE /\ th' = [th EXCEPT ![t].i = i + 1]
                      /\ UNCHANGED <<writer, dest, hist, in>>
            ELSE IF OpensTag(format, i, c.escape)
                 THEN LET b == BufWriteString(Stream, Slice(format, c.last, i), ok)
                      IN  /\ Store(b)
                          /\ th' = [th EXCEPT
                                 ![t].tag = TRUE,
                                 ![t].tagPos = i,
                                 ![t].size = @ + Len(b.acc),
                                 ![t].emitted = @ \o b.acc,
                                 ![t].escape = FALSE,
                                 ![t].i = i + 1]
                          /\ UNCHANGED in
                 ELSE /\ th' = [th EXCEPT ![t].i = i + 1]
                      /\ UNCHANGED <<writer, dest, hist, in>>
    /\ UNCHANGED <<input, level, locked, timeCache, log, calls>>

\* after the loop: the trailing run and the end of line (lines 186-190)
WritefTail(t) ==
    LET c == th[t]
        format == input.format
    IN
    /\ c.pc = "f150"
    /\ c.i = Len(format)
    /\ \E ok \in Outcomes :
         LET b1 == BufWriteString(Stream, Slice(format, c.last, Len(format)), ok)
             b2 == BufWriteByte(b1, EOL, ok)
         IN  /\ Store(b2)
             /\ th' = [th EXCEPT
                    ![t].pc = "unlock",
                    ![t].emitted = @ \o b2.acc,
                    ![t].size = @ + Len(Slice(format, c.last, Len(format))) + 1]
    /\ UNCHANGED <<input, level, in, locked, timeCache, log, calls>>

\* a flush that delivers the buffer and keeps holding it
FlushStream_KeepsBuffer(b, ok) ==
    IF Len(b.buf) = 0 THEN b ELSE [b EXCEPT !.out[b.wr] = @ \o b.buf]

\* line 197
FlushStream(b, ok) == BufFlush(b, ok)

Flush197(t) ==
    /\ th[t].pc = "fl197"
    /\ IF writer.nil THEN Panic(t)
       ELSE \E ok \in Outcomes :
            /\ Store(FlushStream(Stream, ok))
            /\ th' = [th EXCEPT ![t].pc = "unlock",
                                ![t].ioerr = BufFlush(Stream, ok).err]
            /\ UNCHANGED in
    /\ UNCHANGED <<input, level, locked, timeCache, log, calls>>

\* a Close that drops what is buffered
CloseStream_NoFlush(b, ok) == b

\* line 205
CloseStream(b, ok) == BufFlush(b, ok)

\* a swap that rebinds without draining the buffer first
ResetStream_NoFlush(b, sink, ok) == BufReset(b, sink)

\* lines 229-232
ResetStream(b, sink, ok) == BufReset(BufFlush(b, ok), sink)

Close205(t) ==
    /\ th[t].pc = "c205"
    /\ IF writer.nil THEN Panic(t)
       ELSE \E ok \in Outcomes :
            LET b == CloseStream(Stream, ok)
            IN  /\ writer' = NilWriter
                /\ dest' = b.out
                /\ th' = [th EXCEPT ![t].pc = "unlock",
                                    ![t].ioerr = BufFlush(Stream, ok).err]
                /\ UNCHANGED <<in, hist>>
    /\ UNCHANGED <<input, level, locked, timeCache, log, calls>>

Reset229(t) ==
    /\ th[t].pc = "r229"
    /\ IF writer.nil THEN Panic(t)
       ELSE \E ok \in Outcomes :
            LET b == ResetStream(Stream, th[t].sink, ok)
            IN  /\ Store(b)
                /\ in' = th[t].sink
                /\ th' = [th EXCEPT ![t].pc = "unlock",
                                    ![t].ioerr = BufFlush(Stream, ok).err]
    /\ UNCHANGED <<input, level, locked, timeCache, log, calls>>

\* the deferred blog.lock.Unlock(), and the call's end: a return or the panic
Unlock(t) ==
    /\ th[t].pc = "unlock"
    /\ locked' = FALSE
    /\ log' = Append(log, IF th[t].panicked THEN Entry(t, "panic", 0)
                          ELSE Entry(t, "ret", th[t].size))
    /\ th' = [th EXCEPT ![t] = Idle]
    /\ UNCHANGED <<input, level, in, writer, dest, timeCache, hist, calls>>

\* a SetLevel that returns without storing the level
SetLevel_Dropped(t) ==
    /\ CanCall(t, "SetLevel")
    /\ \E l \in Levels :
         log' = Append(log, [Entry(t, "ret", 0) EXCEPT !.op = "SetLevel", !.lvl = l])
    /\ calls' = calls + 1
    /\ UNCHANGED <<input, level, in, writer, dest, locked, timeCache, th, hist>>

SetLevel(t) ==
    /\ CanCall(t, "SetLevel")
    /\ \E l \in Levels :
         /\ level' = l
         /\ log' = Append(log, [Entry(t, "ret", 0) EXCEPT !.op = "SetLevel", !.lvl = l])
    /\ calls' = calls + 1
    /\ UNCHANGED <<input, in, writer, dest, locked, timeCache, th, hist>>

GetLevel(t) ==
    /\ CanCall(t, "Level")
    /\ log' = Append(log, [Entry(t, "ret", 0) EXCEPT !.op = "Level", !.lvl = level])
    /\ calls' = calls + 1
    /\ UNCHANGED <<input, level, in, writer, dest, locked, timeCache, th, hist>>

\* the timestamp cache is refreshed by its own goroutine
Tick ==
    /\ calls < input.maxCalls
    /\ "Tick" \in input.ops
    /\ \E ts \in Timestamps \ {timeCache} : timeCache' = ts
    /\ calls' = calls + 1
    /\ UNCHANGED <<input, level, in, writer, dest, locked, th, log, hist>>

----------------------------------------------------------------------------

InitWith(inputs) ==
    /\ input \in inputs
    /\ level = "DEBUG"
    /\ in = "s1"
    /\ writer = [nil |-> FALSE, buf |-> <<>>, err |-> FALSE, wr |-> "s1"]
    /\ dest = [s \in Sinks |-> <<>>]
    /\ locked = FALSE
    /\ timeCache = <<"1">>
    /\ th = [t \in 1..input.callers |-> Idle]
    /\ log = <<>>
    /\ hist = [s \in Sinks |-> <<>>]
    /\ calls = 0

Ops == {"write", "writef", "flush", "Close", "resetFile", "SetLevel", "Level", "Tick"}

\* concurrent callers: a few kinds of operation at a time
ConcOps ==
    { {"write", "writef", "flush"},
      {"writef", "resetFile", "flush"},
      {"write", "writef", "Close"},
      {"writef", "SetLevel", "Level"},
      {"write", "Tick"} }

ConcFormats == { <<"a", "%", "d">> }

LifeFormats == { <<"a">>, <<"a", "%", "d">> }

ConcInputs ==
    [format : ConcFormats, args : {<<"i7">>}, callers : {NumCallers},
     faulty : {{}}, maxCalls : {MaxCalls}, ops : ConcOps]

\* one caller, every operation, a longer run
LifeInputs ==
    [format : ConcFormats, args : {<<"i7">>}, callers : {1},
     faulty : {{}}, maxCalls : {LifeCalls}, ops : {Ops}]

\* one caller, every format string and argument sequence
SeqInputs ==
    [format : Formats, args : ArgSeqs, callers : {1},
     faulty : {{}}, maxCalls : {SeqCalls}, ops : {Ops}]

\* one caller, sinks that may fail
FailInputs ==
    [format : LifeFormats, args : {<<"i7">>}, callers : {1},
     faulty : (SUBSET Sinks) \ {{}}, maxCalls : {MaxCalls}, ops : {Ops}]

Init == InitWith(ConcInputs \cup LifeInputs \cup SeqInputs)

InitFail == InitWith(FailInputs)

Next ==
    \/ \E t \in Threads : CallWrite(t)
    \/ \E t \in Threads : CallWritef(t)
    \/ \E t \in Threads : CallFlush(t)
    \/ \E t \in Threads : CallClose(t)
    \/ \E t \in Threads : CallResetFile(t)
    \/ \E t \in Threads : Lock(t)
    \/ \E t \in Threads : Write114(t)
    \/ \E t \in Threads : Write116(t)
    \/ \E t \in Threads : Writef145(t)
    \/ \E t \in Threads : WritefScan(t)
    \/ \E t \in Threads : WritefTail(t)
    \/ \E t \in Threads : Flush197(t)
    \/ \E t \in Threads : Close205(t)
    \/ \E t \in Threads : Reset229(t)
    \/ \E t \in Threads : Unlock(t)
    \/ \E t \in Threads : SetLevel(t)
    \/ \E t \in Threads : GetLevel(t)
    \/ Tick

Spec == Init /\ [][Next]_vars

\* concurrent callers, among them calls that fault: a writef with too few
\* arguments, calls after Close
LiveOps ==
    { {"writef", "Close"},
      {"write", "resetFile"},
      {"flush", "SetLevel", "Level", "Tick"} }

LiveInputs ==
    [format : ConcFormats, args : {<<"i7">>}, callers : {LiveCallers},
     faulty : {{}}, maxCalls : {LiveCalls}, ops : LiveOps]
    \cup
    [format : ConcFormats, args : {<<>>}, callers : {LiveCallers},
     faulty : {{}}, maxCalls : {LiveCalls}, ops : {{"writef", "flush"}}]

InitLive == InitWith(LiveInputs)

\* a step of caller t between its Lock and the end of its call
Body(t) ==
    \/ Write114(t) \/ Write116(t)
    \/ Writef145(t) \/ WritefScan(t) \/ WritefTail(t)
    \/ Flush197(t) \/ Close205(t) \/ Reset229(t)
    \/ Unlock(t)

\* a goroutine that can run does run; sync.Mutex hands the lock to a waiter
\* that keeps failing to acquire it (starvation mode)
Fairness ==
    \A t \in 1..LiveCallers : WF_vars(Body(t)) /\ SF_vars(Lock(t))

SpecLive == InitLive /\ [][Next]_vars /\ Fairness

SpecFail == InitFail /\ [][Next]_vars

----------------------------------------------------------------------------
(* What the claims speak of *)

Range(s) == {s[i] : i \in 1..Len(s)}

AllIdle == \A t \in Threads : th[t].pc = "idle"

\* a caller between its Lock and its Unlock
InCS(t) == th[t].pc \notin {"idle", "lock"}

WriteOps == {"write", "writef"}

LineIdx == {i \in 1..Len(log) : log[i].op \in WriteOps}

NoSwapNoClose == \A i \in 1..Len(log) : log[i].op \notin {"Close", "resetFile"}

\* the first position >= from of f holding a byte of S, or 0
FirstAt(f, from, S) ==
    LET c == {j \in from..Len(f) : f[j] \in S}
    IN  IF c = {} THEN 0 ELSE CHOOSE j \in c : \A m \in c : j <= m

\* the placeholders of a format string: from a '%' to the next verb
RECURSIVE CountFrom(_, _)
CountFrom(f, from) ==
    LET p == FirstAt(f, from, {PLACEHOLDER})
        q == IF p = 0 THEN 0 ELSE FirstAt(f, p + 1, Verbs)
    IN  IF q = 0 THEN 0 ELSE 1 + CountFrom(f, q + 1)

NumPlaceholders(f) == CountFrom(f, 1)

\* the escape bytes a placeholder emits: one for every second escape marker
EscapeBytes(tok) ==
    [i \in 1..(Cardinality({j \in 1..Len(tok) : tok[j] = ESCAPE}) \div 2) |-> ESCAPE]

\* the body the specification asks for: literal runs unchanged and once, the
\* i-th placeholder rendered against the i-th argument
RECURSIVE RefBody(_, _, _, _)
RefBody(f, from, args, n) ==
    LET p == FirstAt(f, from, {PLACEHOLDER})
        q == IF p = 0 THEN 0 ELSE FirstAt(f, p + 1, Verbs)
    IN  IF q = 0 THEN SubSeq(f, from, Len(f))
        ELSE SubSeq(f, from, p - 1) \o EscapeBytes(SubSeq(f, p, q))
                 \o Sprintf(SubSeq(f, p, q), args[n])
                 \o RefBody(f, q + 1, args, n + 1)

\* the orders in which the calls of S may be listed
Orders(S) ==
    {f \in [1..Cardinality(S) -> S] : \A i, j \in DOMAIN f : i # j => f[i] # f[j]}

RECURSIVE ConcatLines(_, _, _)
ConcatLines(f, i, n) ==
    IF i > n THEN <<>> ELSE log[f[i]].emitted \o ConcatLines(f, i + 1, n)

\* everything the calls that have ended appended, in the order they ended
AllEmitted == ConcatLines([i \in 1..Len(log) |-> i], 1, Len(log))

\* one call's line, whole: timestamp, level prefix, a body, one end of line
WholeLine(e) ==
    LET head == e.ts \o Prefix(e.lvl)
        n == Len(e.emitted)
    IN  /\ e.kind = "ret"
        /\ n >= Len(head) + 1
        /\ SubSeq(e.emitted, 1, Len(head)) = head
        /\ e.emitted[n] = EOL
        /\ \A j \in 1..(n - 1) : e.emitted[j] # EOL

----------------------------------------------------------------------------
\* all calls have returned, the buffer is flushed, no Close and no swap took
\* place, and the arguments are as many as the placeholders
C1_Premise ==
    /\ AllIdle
    /\ ~writer.nil
    /\ writer.buf = <<>>
    /\ NoSwapNoClose
    /\ Len(input.args) = NumPlaceholders(input.format)

(* C1: when N concurrent write/writef calls, each with as many arguments as *)
(* its format has placeholders, have all returned and the buffer has been   *)
(* flushed (no Close, no swap), the destination is the concatenation, in    *)
(* some order, of the N calls' whole lines: no line is torn.                *)
C1_NoTornLines ==
    C1_Premise =>
        /\ \A i \in LineIdx : WholeLine(log[i])
        /\ \E f \in Orders(LineIdx) :
               dest["s1"] = ConcatLines(f, 1, Cardinality(LineIdx))

C1_Witness ==
    /\ C1_Premise
    /\ \E i, j \in LineIdx :
         /\ log[i].t # log[j].t
         /\ log[i].op = "writef"
         /\ log[i].lvl # log[j].lvl
    /\ \E i \in 1..Len(log) : log[i].op = "flush"
    /\ dest["s1"] # <<>>

(* C2: at most one caller is inside a critical section of write, writef,    *)
(* flush, Close or resetFile, and whoever is inside holds blog.lock.        *)

C2_MutualExclusion ==
    /\ \A t, u \in Threads : InCS(t) /\ InCS(u) => t = u
    /\ (\E t \in Threads : InCS(t)) => locked

C2_Witness ==
    \E t, u \in Threads :
        /\ t # u
        /\ th[t].pc = "f150"
        /\ th[u].pc = "lock"

(* C3: a write(level, m) that returns has appended exactly                  *)
(* timestamp ++ prefix(level) ++ m ++ EOL, m taken literally, and returned  *)
(* the length of that line.                                                 *)

C3_WriteLiteral ==
    \A i \in 1..Len(log) :
        log[i].op = "write" /\ log[i].kind = "ret" =>
            /\ log[i].emitted =
                   log[i].ts \o Prefix(log[i].lvl) \o input.format \o <<EOL>>
            /\ log[i].val =
                   Len(log[i].ts) + Len(Prefix(log[i].lvl)) + Len(input.format) + 1

C3_Witness ==
    \E i \in 1..Len(log) :
        /\ log[i].op = "write"
        /\ log[i].kind = "ret"
        /\ {PLACEHOLDER, ESCAPE, "d"} \subseteq Range(input.format)

(* C4: across resetFile no byte is lost, duplicated or misdirected: every   *)
(* sink holds exactly the bytes appended while it was the destination, but  *)
(* for those still in the buffer, which belong to the current destination.  *)

C4_SwapConserves ==
    \A s \in Sinks :
        dest[s] \o (IF ~writer.nil /\ writer.wr = s THEN writer.buf ELSE <<>>)
            = hist[s]

C4_Witness ==
    /\ AllIdle
    /\ Len(log) = 4
    /\ log[1].op \in WriteOps /\ log[1].kind = "ret"
    /\ log[2].op = "resetFile" /\ log[2].sink = "s2"
    /\ log[3].op \in WriteOps /\ log[3].kind = "ret"
    /\ log[4].op = "flush"
    /\ dest["s1"] = log[1].emitted
    /\ dest["s2"] = log[3].emitted
    /\ writer.buf = <<>>

(* C5: once Close has returned, no later call ends in a fault.              *)

C5_UseAfterCloseDefined ==
    \A i, j \in 1..Len(log) :
        i < j /\ log[i].op = "Close" /\ log[i].kind = "ret" => log[j].kind # "panic"

(* C6: when Close has done its work the writer is invalidated and the       *)
(* destination holds every byte appended before, in append order and once   *)
(* (one write and a Close leave exactly the one line).                      *)

C6_CloseDrains ==
    \A t \in Threads :
        th[t].op = "Close" /\ th[t].pc = "unlock" /\ ~th[t].panicked =>
            /\ writer.nil
            /\ \A s \in Sinks : dest[s] = hist[s]
            /\ NoSwapNoClose => dest["s1"] = AllEmitted

C6_Witness ==
    \E t \in Threads :
        /\ th[t].op = "Close" /\ th[t].pc = "unlock" /\ ~th[t].panicked
        /\ Len(log) = 1
        /\ log[1].op = "write"
        /\ dest["s1"] = log[1].ts \o Prefix(log[1].lvl) \o input.format \o <<EOL>>

(* C7: a writef given fewer arguments than placeholders never faults on its *)
(* argument sequence (it reports a FormatError).                            *)

C7_UnderflowReported ==
    \A t \in Threads : th[t].op = "writef" /\ th[t].panicked => writer.nil

(* C8: a writef whose argument count differs from its placeholder count     *)
(* fails and appends nothing.                                               *)

C8_MismatchAppendsNothing ==
    \A i \in 1..Len(log) :
        log[i].op = "writef" /\ Len(input.args) # NumPlaceholders(input.format) =>
            /\ log[i].kind # "ret"
            /\ log[i].emitted = <<>>

(* C9: a writef with as many arguments as placeholders writes timestamp,    *)
(* prefix, then the literal runs unchanged and each placeholder rendered    *)
(* against the argument at its position, then one end of line.              *)

C9_RendersBody ==
    \A i \in 1..Len(log) :
        /\ log[i].op = "writef"
        /\ log[i].kind = "ret"
        /\ Len(input.args) = NumPlaceholders(input.format)
        => log[i].emitted =
               log[i].ts \o Prefix(log[i].lvl)
                   \o RefBody(input.format, 1, input.args, 1) \o <<EOL>>

(* C10: the integer write and writef return is the number of bytes the call *)
(* appended to the buffered stream, also when the sink fails.               *)

C10_ReturnsBytesAppended ==
    \A i \in 1..Len(log) :
        log[i].op \in WriteOps /\ log[i].kind = "ret" =>
            log[i].val = Len(log[i].emitted)

(* C11: when the sink fails during flush, resetFile or Close, the call      *)
(* returns that failure to its caller.                                      *)
C11_SinkErrorPropagated ==
    \A t \in Threads :
        th[t].pc = "unlock" /\ th[t].ioerr => th[t].err

\* the last call on the stream that ended was a flush that returned
LastIsFlush ==
    /\ Len(log) > 0
    /\ log[Len(log)].op = "flush"
    /\ log[Len(log)].kind = "ret"

(* C12: flush is idempotent: a flush leaves the buffer empty, and a flush    *)
(* that follows a flush with no write in between changes neither the        *)
(* destination nor the buffer.                                              *)
C12_FlushIdempotent ==
    [][\A t \in Threads :
          th[t].pc = "fl197" /\ th'[t] # th[t] /\ ~writer.nil =>
              /\ writer'.buf = <<>>
              /\ LastIsFlush => UNCHANGED <<writer, dest>>]_vars

C12_Witness ==
    /\ Len(log) = 2
    /\ log[1].op = "write" /\ log[1].kind = "ret"
    /\ LastIsFlush
    /\ dest["s1"] = log[1].emitted
    /\ \E t \in Threads : th[t].op = "flush" /\ th[t].pc = "unlock"

\* the level passed to the last SetLevel that ended before the k-th call did,
\* DEBUG when there is none
LastSet(k) ==
    LET S == {i \in 1..(k - 1) : log[i].op = "SetLevel"}
    IN  IF S = {} THEN "DEBUG"
        ELSE log[CHOOSE i \in S : \A j \in S : j <= i].lvl

LevelFollowsSetLevel ==
    /\ level = LastSet(Len(log) + 1)
    /\ \A i \in 1..Len(log) : log[i].op = "Level" => log[i].lvl = LastSet(i)

LevelFrame ==
    /\ (\E t \in Threads : SetLevel(t) \/ GetLevel(t)) => UNCHANGED <<writer, dest, hist, in>>
    /\ level' # level => \E t \in Threads : SetLevel(t)

(* C13: the level is DEBUG on a new writer, is changed by SetLevel alone,    *)
(* and Level() returns the value of the most recent SetLevel; SetLevel and  *)
(* Level change neither the buffered bytes nor the destination.             *)
C13_LevelOnlyBySetLevel == []LevelFollowsSetLevel /\ [][LevelFrame]_vars

C13_Witness ==
    /\ Len(log) = 3
    /\ log[1].op = "SetLevel" /\ log[1].lvl = "INFO"
    /\ log[2].op = "writef" /\ log[2].kind = "ret"
    /\ log[3].op = "Level" /\ log[3].lvl = "INFO"
    /\ writer.buf # <<>>

(* C16: in the writef scanner escape-pending is false whenever the scanner  *)
(* is outside a placeholder, and a '%' met outside a placeholder opens one, *)
(* also when the byte before it is the escape marker: after a '%' has been  *)
(* scanned the scanner is inside a placeholder.                             *)
C16_EscapeOnlyInTag ==
    \A t \in Threads :
        th[t].pc = "f150" =>
            /\ ~th[t].tag => ~th[t].escape
            /\ th[t].i >= 1 /\ input.format[th[t].i] = PLACEHOLDER => th[t].tag

C16_Witness ==
    \E t \in Threads :
        /\ th[t].pc = "f150"
        /\ th[t].i = 2
        /\ input.format[1] = ESCAPE
        /\ input.format[2] = PLACEHOLDER
        /\ th[t].tag
        /\ th[t].emitted = th[t].ts \o Prefix(th[t].lvl) \o <<ESCAPE>>

(* C17: inside a placeholder an escape-marker byte is appended only when    *)
(* the escape marker occurs a second consecutive time: the scan step that   *)
(* appends it reads an escape marker that immediately follows another.      *)
C17_EscapeByteOnlyWhenConsecutive ==
    [][\A t \in Threads :
          WritefScan(t) /\ th[t].tag /\ input.format[th[t].i + 1] = ESCAPE
                        /\ th'[t].emitted # th[t].emitted
              => input.format[th[t].i] = ESCAPE]_vars

\* how many times byte c occurs in s
Count(s, c) == Cardinality({j \in 1..Len(s) : s[j] = c})

(* C18: each literal byte of the format string is appended exactly once,    *)
(* also when the format ends inside a placeholder no verb closes: the line  *)
(* of a writef that returned holds the literal byte "a" as many times as    *)
(* the format string does.                                                  *)
C18_LiteralOnce ==
    \A i \in 1..Len(log) :
        log[i].op = "writef" /\ log[i].kind = "ret" =>
            Count(log[i].emitted, "a") = Count(input.format, "a")

\* the bytes the writer still holds for sink s
Held(s) == IF ~writer.nil /\ writer.wr = s THEN writer.buf ELSE <<>>

\* the destination bound when the k-th call held the lock: the argument of
\* the last resetFile that ended before it, the first sink when there is none
SinkAt(k) ==
    LET S == {i \in 1..(k - 1) : log[i].op = "resetFile" /\ log[i].kind = "ret"}
    IN  IF S = {} THEN "s1"
        ELSE log[CHOOSE i \in S : \A j \in S : j <= i].sink

\* what the calls that held the lock while s was bound appended, in lock order
RECURSIVE LinesOf(_, _)
LinesOf(s, k) ==
    IF k = 0 THEN <<>>
    ELSE LinesOf(s, k - 1) \o (IF SinkAt(k) = s THEN log[k].emitted ELSE <<>>)

(* C14: under any interleaving of resetFile with concurrent write/writef,    *)
(* the swap falls between complete messages: each call's bytes are all in   *)
(* the destination that was bound when the call held the lock (or still     *)
(* buffered for it), none in the other one.                                 *)
C14_SwapBetweenMessages ==
    (\A t \in Threads : ~InCS(t)) =>
        \A s \in Sinks : dest[s] \o Held(s) = LinesOf(s, Len(log))

C14_Witness ==
    /\ Len(log) = 3
    /\ log[1].op = "writef" /\ log[1].kind = "ret"
    /\ log[2].op = "resetFile" /\ log[2].sink = "s2"
    /\ log[3].op = "writef" /\ log[3].kind = "ret"
    /\ log[1].t # log[2].t
    /\ dest["s1"] = log[1].emitted
    /\ dest["s2"] \o writer.buf = log[3].emitted
    /\ dest["s2"] # <<>>
    /\ AllIdle

\* what the caller inside a critical section has appended so far
RECURSIVE InFlight(_)
InFlight(k) ==
    IF k = 0 THEN <<>>
    ELSE InFlight(k - 1) \o (IF InCS(k) THEN th[k].emitted ELSE <<>>)

StreamIsAppended ==
    ~writer.nil =>
        /\ Len(writer.buf) <= BufSize
        /\ \A s \in Sinks :
               dest[s] \o Held(s) =
                   LinesOf(s, Len(log))
                       \o (IF writer.wr = s THEN InFlight(input.callers) ELSE <<>>)

\* a step of write or writef by caller t: t is at a statement of their
\* critical sections and moves
WriteStep(t) ==
    th[t].pc \in {"w114", "w116", "f145", "f150"} /\ th'[t] # th[t]

OnlyImplicitFlush ==
    \A t \in Threads :
        WriteStep(t) /\ dest' # dest =>
            Len(writer.buf) + Len(th'[t].emitted) - Len(th[t].emitted) > BufSize

(* C19: with a sink that does not fail, before Close, the destination        *)
(* followed by the buffered bytes is the lines appended so far in lock      *)
(* order; the buffer never holds more than its capacity; a step of write or *)
(* writef changes the destination only when the bytes it appends do not fit *)
(* in the buffer's free space.                                              *)
C19_DestThenBufferIsStream == []StreamIsAppended /\ [][OnlyImplicitFlush]_vars

C19_Witness ==
    /\ NoSwapNoClose
    /\ Len(log) >= 1
    /\ \A i \in 1..Len(log) : log[i].op \in WriteOps
    /\ \E t \in Threads :
         /\ th[t].op = "writef" /\ th[t].pc = "f150" /\ th[t].i = 1
         /\ dest["s1"] # <<>>
         /\ Len(writer.buf) = BufSize

Waiting(t) == th[t].pc = "lock"

LockNotLeaked ==
    /\ AllIdle => ~locked
    /\ locked => \E t \in Threads : InCS(t)

(* C20: the lock is released on every exit path, faults included: it is     *)
(* held only while a caller is inside; under fair scheduling every caller   *)
(* waiting for the lock acquires it and every call ends.                    *)
C20_LockReleasedAndAcquired ==
    /\ []LockNotLeaked
    /\ \A t \in 1..LiveCallers : Waiting(t) ~> InCS(t)
    /\ \A t \in 1..LiveCallers : InCS(t) ~> th[t].pc = "idle"

C20_Witness ==
    \E i \in 1..Len(log) : \E t \in Threads :
        /\ log[i].kind = "panic"
        /\ log[i].op = "writef"
        /\ ~writer.nil
        /\ t # log[i].t
        /\ InCS(t)
        /\ locked

(* C15: when the Flush inside flush or resetFile fails, the bytes that were *)
(* buffered and not delivered are still held by the writer afterwards.      *)
C15_FailedFlushKeepsBytes ==
    \A t \in Threads :
        th[t].pc = "unlock" /\ th[t].ioerr /\ th[t].op \in {"flush", "resetFile"} =>
            \A s \in Sinks : Len(dest[s]) + Len(Held(s)) = Len(hist[s])

====
